---- MODULE Spec2Model ----
(***************************************************************************)
(* A model of the shell lexer+parser of parse.go.  The parser struct is    *)
(* the record p; the Go call stack of the recursive-descent rules is the   *)
(* sequence calls; ret is what Parse returned.  Code points are one-       *)
(* character strings, literal text is a sequence of code points.           *)
(***************************************************************************)
EXTENDS Integers, Sequences, FiniteSets, TLC

VARIABLES p, calls, ret

vars == <<p, calls, ret>>

-----------------------------------------------------------------------------
(* Code points and their classes                                           *)

LF == "\n"
NUL == "NUL"
BSL == "\\"
NoQuote == "q0"

reserved == {LF, "&", ">", "<", "|", ";", "(", ")", "$"}

starters == {"{", "}", "#"}

spaceAndLF == {" ", "\t", LF}

space == {" ", "\t"}

DQ == "\""
SQ == "'"
BQ == "BQ"

quote == {DQ, SQ, BQ}

Letters == {"a", "b", "c", "d", "e", "f", "g", "h", "i", "j", "k", "l", "m",
            "n", "o", "p", "q", "r", "s", "t", "u", "v", "w", "x", "y", "z",
            "A", "B", "C", "D", "E", "F", "G", "H", "I", "J", "K", "L", "M",
            "N", "O", "P", "Q", "R", "S", "T", "U", "V", "W", "X", "Y", "Z"}

Digits == {"0", "1", "2", "3", "4", "5", "6", "7", "8", "9"}

(* identRe: ^[a-zA-Z_][a-zA-Z0-9_]*$ *)
identRe(s) ==
    /\ Len(s) >= 1
    /\ s[1] \in Letters \cup {"_"}
    /\ \A i \in 2..Len(s) : s[i] \in Letters \cup Digits \cup {"_"}

-----------------------------------------------------------------------------
(* Tokens                                                                  *)

ILLEGAL == "ILLEGAL"
EOF == "EOF"
COMMENT == "COMMENT"
LIT == "LIT"
IF_ == "IF"
THEN_ == "THEN"
ELIF == "ELIF"
ELSE_ == "ELSE"
FI == "FI"
WHILE == "WHILE"
FOR == "FOR"
IN_ == "IN"
DO == "DO"
DONE == "DONE"
SEMICOLON == "SEMICOLON"
AND == "AND"
LAND == "LAND"
OR == "OR"
LOR == "LOR"
LPAREN == "LPAREN"
RPAREN == "RPAREN"
LBRACE == "LBRACE"
RBRACE == "RBRACE"
RDROUT == "RDROUT"
APPEND == "APPEND"
RDRIN == "RDRIN"
EXP == "EXP"

(* Token(r): the token whose value is the code point r *)
Token(r) == r

reservedLits(tok) ==
    CASE tok = IF_ -> <<"i", "f">>
      [] tok = THEN_ -> <<"t", "h", "e", "n">>
      [] tok = ELIF -> <<"e", "l", "i", "f">>
      [] tok = ELSE_ -> <<"e", "l", "s", "e">>
      [] tok = FI -> <<"f", "i">>
      [] tok = WHILE -> <<"w", "h", "i", "l", "e">>
      [] tok = FOR -> <<"f", "o", "r">>
      [] tok = IN_ -> <<"i", "n">>
      [] tok = DO -> <<"d", "o">>
      [] tok = DONE -> <<"d", "o", "n", "e">>
      [] OTHER -> <<>>

-----------------------------------------------------------------------------
(* Errors and positions                                                    *)

position(l, c) == [line |-> l, col |-> c]

nil == [kind |-> "nil", pos |-> position(0, 0), text |-> "", tok |-> "",
        want |-> "", name |-> <<>>]

ReadFault == [kind |-> "io", pos |-> position(0, 0), text |-> "read fault",
              tok |-> "", want |-> "", name |-> <<>>]

lineErr(pos, text, tok, want, name) ==
    [kind |-> "lineErr", pos |-> pos, text |-> text, tok |-> tok,
     want |-> want, name |-> name]

fmtWanted == "unexpected token %s - wanted %s"
fmtAfter == "unexpected token %s after %s"
fmtFunc == "invalid func name %q"

-----------------------------------------------------------------------------
(* The scanner: operators from a parser record q to the parser record     *)
(* after the call (and the call's results).                                *)

(* the element of a singleton; Only({F(x) : x \in {e}}) is F of the      *)
(* results x of the call e, the call made once                            *)
Only(S) == CHOOSE v \in S : TRUE

advance(q, tok, val) ==
    LET q1 == IF q.tok # EOF
              THEN [q EXCEPT !.ltok = q.tok, !.lval = q.val]
              ELSE q
    IN  [q1 EXCEPT !.tok = tok, !.val = val]

setEOF(q) == advance(q, EOF, <<"E", "O", "F">>)

errPassOverwrite(q, err) == setEOF([q EXCEPT !.err = err])

errPass(q, err) ==
    setEOF(IF q.err = nil THEN [q EXCEPT !.err = err] ELSE q)

posErr(q, pos, text, tok, want, name) ==
    errPass(q, lineErr(pos, text, tok, want, name))

curErr(q, text, tok, want, name) == posErr(q, q.pos, text, tok, want, name)

errWantedStr(q, s) ==
    LET q1 == IF q.tok = EOF THEN [q EXCEPT !.pos = q.npos] ELSE q
    IN  curErr(q1, fmtWanted, q1.tok, s, <<>>)

errWanted(q, tok) == errWantedStr(q, tok)

errAfterStrNoEOF(q, s) ==
    IF q.err = nil
    THEN [q EXCEPT !.err = lineErr(q.pos, fmtAfter, q.tok, s, <<>>)]
    ELSE q

errAfterStr(q, s) == curErr(q, fmtAfter, q.tok, s, <<>>)

(* p.r.ReadRune(): the buffered reader over the source text src, which    *)
(* may fault once at offset faultAt (and again on every retry if sticky). *)
ReadRune(q) ==
    IF q.off = q.faultAt
    THEN [r |-> NUL, err |-> "fault",
          p |-> [q EXCEPT !.canUnread = FALSE,
                          !.faultAt = IF q.sticky THEN @ ELSE -1]]
    ELSE IF q.off >= Len(q.src)
    THEN [r |-> NUL, err |-> "EOF", p |-> [q EXCEPT !.canUnread = FALSE]]
    ELSE [r |-> q.src[q.off + 1], err |-> "nil",
          p |-> [q EXCEPT !.off = @ + 1, !.canUnread = TRUE]]

(* p.r.UnreadRune(): fails unless the last operation was a ReadRune *)
UnreadRune(q) ==
    IF q.canUnread
    THEN [ok |-> TRUE, p |-> [q EXCEPT !.off = @ - 1, !.canUnread = FALSE]]
    ELSE [ok |-> FALSE, p |-> q]

moveWith(q, r) ==
    LET q1 == [q EXCEPT !.bpos = q.npos]
    IN  IF r = LF
        THEN [q1 EXCEPT !.npos = position(q.npos.line + 1, 1)]
        ELSE [q1 EXCEPT !.npos = position(q.npos.line, q.npos.col + 1)]

readRune(q) ==
    Only({IF x.err # "nil"
          THEN [r |-> NUL, err |-> x.err,
                p |-> IF x.err = "EOF" THEN setEOF(x.p)
                                       ELSE errPass(x.p, ReadFault)]
          ELSE [r |-> x.r, err |-> "nil", p |-> moveWith(x.p, x.r)]
          : x \in {ReadRune(q)}})

unreadRune(q) ==
    Only({IF x.ok THEN [x.p EXCEPT !.npos = q.bpos]
                  ELSE [q EXCEPT !.panic = "invalid use of UnreadRune"]
          : x \in {UnreadRune(q)}})

readOnly(q, wanted) ==
    Only({IF x.r = wanted
          THEN [ok |-> TRUE, p |-> moveWith(x.p, x.r)]
          ELSE IF x.err = "nil"
          THEN [ok |-> FALSE, p |-> UnreadRune(x.p).p]
          ELSE [ok |-> FALSE, p |-> x.p]
          : x \in {ReadRune(q)}})

(* doToken(r, readOnly): the token that starts with the code point r; a   *)
(* two-character operator is recognised by probing one more code point.   *)
doToken(q, r) ==
    CASE r = "&" -> Only({[tok |-> IF x.ok THEN LAND ELSE AND, p |-> x.p]
                          : x \in {readOnly(q, "&")}})
      [] r = "|" -> Only({[tok |-> IF x.ok THEN LOR ELSE OR, p |-> x.p]
                          : x \in {readOnly(q, "|")}})
      [] r = ">" -> Only({[tok |-> IF x.ok THEN APPEND ELSE RDROUT, p |-> x.p]
                          : x \in {readOnly(q, ">")}})
      [] r = "<" -> [tok |-> RDRIN, p |-> q]
      [] r = ";" -> [tok |-> SEMICOLON, p |-> q]
      [] r = "(" -> [tok |-> LPAREN, p |-> q]
      [] r = ")" -> [tok |-> RPAREN, p |-> q]
      [] r = "{" -> [tok |-> LBRACE, p |-> q]
      [] r = "}" -> [tok |-> RBRACE, p |-> q]
      [] r = "$" -> [tok |-> EXP, p |-> q]
      [] OTHER -> [tok |-> Token(r), p |-> q]

RECURSIVE readUntilLoop(_, _, _)
(* one iteration of the loop of lines 222-231, rs the runes read so far *)
readUntilLoop(q, tok, rs) ==
    Only({IF x.err # "nil"
          THEN [val |-> rs, found |-> FALSE, p |-> x.p]
          ELSE Only({IF tok = t.tok
                     THEN [val |-> rs, found |-> TRUE, p |-> t.p]
                     ELSE readUntilLoop(t.p, tok, Append(rs, x.r))
                     : t \in {doToken(x.p, x.r)}})
          : x \in {readRune(q)}})

readUntil(q, tok) == readUntilLoop(q, tok, <<>>)

readUntilWant(q, tok) ==
    Only({[val |-> x.val,
           p |-> IF x.found THEN x.p ELSE errWanted(x.p, tok)]
          : x \in {readUntil(q, tok)}})

readLine(q) ==
    Only({[val |-> x.val, p |-> x.p] : x \in {readUntil(q, Token(LF))}})

RECURSIVE readLitLoop(_, _, _, _)
(* lines 196-202: read the next code point of the literal *)
readLitNext(q, qt, rs) ==
    Only({IF x.err # "nil"
          THEN [val |-> rs,
                p |-> IF qt # NoQuote THEN errWanted(x.p, Token(qt))
                                      ELSE x.p]
          ELSE readLitLoop(x.p, x.r, qt, rs)
          : x \in {readRune(q)}})

(* readLitLoop with the escape case taken in single quotes too *)
readLitLoopEscapeInSQ(q, r, qt, rs) ==
    CASE r = BSL ->
            Only({readLitNext(x.p, qt,
                              IF x.r # LF THEN rs \o <<BSL, x.r>> ELSE rs)
                  : x \in {readRune(q)}})
      [] r # BSL /\ qt # SQ /\ r = "$" ->
            [val |-> rs, p |-> unreadRune(q)]
      [] r # BSL /\ ~(qt # SQ /\ r = "$") /\ qt # NoQuote ->
            readLitNext(q, IF r = qt THEN NoQuote ELSE qt, Append(rs, r))
      [] r # BSL /\ ~(qt # SQ /\ r = "$") /\ qt = NoQuote /\ r \in quote ->
            readLitNext(q, r, Append(rs, r))
      [] r # BSL /\ ~(qt # SQ /\ r = "$") /\ qt = NoQuote /\ r \notin quote
         /\ r \in reserved \cup space ->
            [val |-> rs, p |-> unreadRune(q)]
      [] OTHER -> readLitNext(q, qt, Append(rs, r))

(* one iteration of the loop of lines 171-203, on the code point r, in    *)
(* the quoted region qt *)
readLitLoop(q, r, qt, rs) ==
    CASE qt # SQ /\ r = BSL ->
            Only({readLitNext(x.p, qt,
                              IF x.r # LF THEN rs \o <<BSL, x.r>> ELSE rs)
                  : x \in {readRune(q)}})
      [] qt # SQ /\ r # BSL /\ r = "$" ->
            [val |-> rs, p |-> unreadRune(q)]
      [] ~(qt # SQ /\ r \in {BSL, "$"}) /\ qt # NoQuote ->
            readLitNext(q, IF r = qt THEN NoQuote ELSE qt, Append(rs, r))
      [] ~(qt # SQ /\ r \in {BSL, "$"}) /\ qt = NoQuote /\ r \in quote ->
            readLitNext(q, r, Append(rs, r))
      [] ~(qt # SQ /\ r \in {BSL, "$"}) /\ qt = NoQuote /\ r \notin quote
         /\ r \in reserved \cup space ->
            [val |-> rs, p |-> unreadRune(q)]
      [] OTHER -> readLitNext(q, qt, Append(rs, r))

readLit(q, r) == readLitLoop(q, r, NoQuote, <<>>)

RECURSIVE skipSpace(_)
(* lines 138-147: read code points up to the first that is no space *)
skipSpace(q) ==
    Only({IF x.err # "nil" THEN x
          ELSE IF x.r \notin space THEN x
          ELSE skipSpace([x.p EXCEPT !.spaced = TRUE])
          : x \in {readRune(q)}})

RECURSIVE next(_)
(* lines 148-164, once the code point r that starts the token is read *)
nextToken(q, r) ==
    Only({CASE cont.ok -> next(cont.p)
            [] ~cont.ok /\ r = "#" ->
                  Only({advance(l.p, COMMENT, l.val)
                        : l \in {readLine(cont.p)}})
            [] ~cont.ok /\ r = LF -> advance(cont.p, Token(LF), <<>>)
            [] ~cont.ok /\ r \in (reserved \cup starters) \ {"#", LF} ->
                  Only({advance(t.p, t.tok, <<>>)
                        : t \in {doToken(cont.p, r)}})
            [] OTHER ->
                  Only({advance(l.p, LIT, l.val)
                        : l \in {readLit(cont.p, r)}})
          : cont \in {IF r = BSL THEN readOnly(q, LF)
                                 ELSE [ok |-> FALSE, p |-> q]}})

next(q) ==
    Only({IF x.err # "nil" THEN x.p
          ELSE nextToken([x.p EXCEPT !.pos = position(x.p.npos.line,
                                                      x.p.npos.col - 1)],
                         x.r)
          : x \in {skipSpace([q EXCEPT !.lpos = q.pos, !.spaced = FALSE])}})

peek(q, tok) == q.tok = tok \/ (q.tok = LIT /\ q.val = reservedLits(tok))

got(q, tok) == IF peek(q, tok) THEN next(q) ELSE q

want(q, tok) == IF ~peek(q, tok) THEN errWanted(q, tok) ELSE next(q)

-----------------------------------------------------------------------------
(* AST nodes.  A field of type Node (nil or one node) is a sequence of at *)
(* most one node; a field of type []Node is a sequence.                   *)

Lit(val) == [type |-> "Lit", Val |-> val]
Word(parts) == [type |-> "Word", Parts |-> parts]
litWord(val) == Word(<<Lit(val)>>)
ParamExp(text) == [type |-> "ParamExp", Text |-> text]
CmdSubst(stmts) == [type |-> "CmdSubst", Stmts |-> stmts]
Comment(text) == [type |-> "Comment", Text |-> text]
Subshell(stmts) == [type |-> "Subshell", Stmts |-> stmts]
Block(stmts) == [type |-> "Block", Stmts |-> stmts]
IfStmt(cond, thenStmts, elifs, elseStmts) ==
    [type |-> "IfStmt", Cond |-> cond, ThenStmts |-> thenStmts,
     Elifs |-> elifs, ElseStmts |-> elseStmts]
Elif(cond, thenStmts) ==
    [type |-> "Elif", Cond |-> cond, ThenStmts |-> thenStmts]
WhileStmt(cond, doStmts) ==
    [type |-> "WhileStmt", Cond |-> cond, DoStmts |-> doStmts]
ForStmt(name, wordList, doStmts) ==
    [type |-> "ForStmt", Name |-> name, WordList |-> wordList,
     DoStmts |-> doStmts]
FuncDecl(name, body) == [type |-> "FuncDecl", Name |-> name, Body |-> body]
Command(args, background) ==
    [type |-> "Command", Args |-> args, Background |-> background]
BinaryExpr(x, op, y) == [type |-> "BinaryExpr", X |-> x, Op |-> op, Y |-> y]
Redirect(op, obj) == [type |-> "Redirect", Op |-> op, Obj |-> obj]

-----------------------------------------------------------------------------
(* The builder stack.  A destination slot (a pointer to a []Node or to a  *)
(* Node) is a cell of q.heap, named by its index; q.stack is the stack of *)
(* slot pointers.                                                         *)

(* the address a push of a fresh local's field will get *)
newSlot(q) == Len(q.heap) + 1

(* the nodes now held by a local's field; 0 is a field never pushed *)
nodes(q, slot) == IF slot = 0 THEN <<>> ELSE q.heap[slot].nodes

push(q, single) ==
    [q EXCEPT !.heap = Append(@, [single |-> single, nodes |-> <<>>]),
              !.stack = Append(@, newSlot(q))]

add(q, n) ==
    IF q.stack = <<>>
    THEN [q EXCEPT !.panic = "index out of range"]
    ELSE LET cur == q.stack[Len(q.stack)]
         IN  IF q.heap[cur].single /\ q.heap[cur].nodes # <<>>
             THEN [q EXCEPT !.panic = "single node set twice"]
             ELSE [q EXCEPT !.heap[cur].nodes = Append(@, n)]

pop(q) ==
    IF q.stack = <<>>
    THEN [q EXCEPT !.panic = "slice bounds out of range"]
    ELSE [q EXCEPT !.stack = SubSeq(@, 1, Len(@) - 1)]

addOnly(q, n) == add(q, n)

popAdd(q, n) == add(pop(q), n)

-----------------------------------------------------------------------------
(* The grammar rules.  calls is the Go call stack: one frame per active   *)
(* call of a rule, holding the rule's locals (a local's slice or Node     *)
(* field is the slot pushed for it) and where the rule resumes (pc); rv   *)
(* is the value the last callee returned to the frame.                    *)

Frame0 ==
    [fn |-> "", pc |-> "", rv |-> 0, stop |-> {}, propagate |-> FALSE,
     count |-> 0, stmts |-> 0, cond |-> 0, thenStmts |-> 0, elifs |-> 0,
     elseStmts |-> 0, elfCond |-> 0, elfThen |-> 0, doStmts |-> 0,
     wordList |-> 0, name |-> <<>>, args |-> 0, background |-> FALSE,
     body |-> 0, fpos |-> position(0, 0), fval |-> <<>>, op |-> "",
     left |-> <<>>, y |-> 0, obj |-> 0, parts |-> 0, depth |-> 0]

Frame(fn, pc) == [Frame0 EXCEPT !.fn = fn, !.pc = pc]

commandsPropagatingFrame(propagate, stop) ==
    [Frame("commandsPropagating", "loop") EXCEPT !.propagate = propagate,
                                                 !.stop = stop]

commands(stop) == commandsPropagatingFrame(FALSE, stop)

commandsUnlimited(stop) == commandsPropagatingFrame(FALSE, stop)

commandsLimited(stop) == commandsPropagatingFrame(TRUE, stop)

commandFrame(stop) == [Frame("command", "start") EXCEPT !.stop = stop]

wordFrame == Frame("word", "start")

wordListFrame == Frame("wordList", "loop")

binaryExprFrameOr(op, left) ==
    [Frame("binaryExpr", "start") EXCEPT !.op = OR, !.left = left]

binaryExprFrame(op, left) ==
    [Frame("binaryExpr", "start") EXCEPT !.op = op, !.left = left]

gotRedirectFrame == Frame("gotRedirect", "start")

top == calls[Len(calls)]

(* the storage a parse may take: at most MaxAlloc destination slots per   *)
(* code point of the text; a parse that wants more stops, unfinished      *)
MaxAlloc == 4

At(fn, pc) ==
    /\ ~ret.done
    /\ p.panic = ""
    /\ Len(p.heap) <= MaxAlloc * (Len(p.src) + 1)
    /\ calls # <<>>
    /\ top.fn = fn
    /\ top.pc = pc

(* the call stack after the running rule moves on as frame f *)
Goto(f) == [calls EXCEPT ![Len(calls)] = f]

(* ... after it calls the rule of frame g, to resume as frame f *)
Call(f, g) == Append(Goto(f), g)

(* ... after it returns v to its caller *)
Return(v) ==
    LET rest == SubSeq(calls, 1, Len(calls) - 1)
    IN  [rest EXCEPT ![Len(rest)].rv = v]

(* a step of the running rule: the parser becomes q and the call stack   *)
(* cs; a frame the step calls records in depth the depth of the builder   *)
(* stack at its entry *)
Step(q, cs) ==
    /\ p' = q
    /\ calls' = IF Len(cs) > Len(calls)
                THEN [cs EXCEPT ![Len(cs)].depth = Len(q.stack)]
                ELSE cs
    /\ UNCHANGED ret

(* lines 22-24 of Parse; program() and commands() only pass the call on *)
Parse ==
    /\ At("Parse", "start")
    /\ Step(next(push(p, FALSE)),
            Call([top EXCEPT !.pc = "return"], commands({})))

(* line 25: return p.prog, p.err *)
ParseReturn ==
    /\ At("Parse", "return")
    /\ ret' = [done |-> TRUE, prog |-> nodes(p, 1), err |-> p.err]
    /\ calls' = <<>>
    /\ UNCHANGED p

(* lines 446 and 545, 548, 551: command returns after its last call *)
commandReturn ==
    /\ At("command", "return")
    /\ Step(p, Return(0))

(* lines 367-370 *)
cmdStopAlways(propagate, stop) == stop

cmdStop(propagate, stop) == IF propagate THEN stop ELSE {}

(* one iteration of the loop of lines 371-379 *)
commandsPropagating ==
    /\ At("commandsPropagating", "loop")
    /\ IF p.tok = EOF \/ \E tok \in top.stop : peek(p, tok)
       THEN Step(p, Return(top.count))
       ELSE Step(p, Call([top EXCEPT !.count = @ + 1],
                         commandFrame(cmdStop(top.propagate, top.stop))))

(* the switch of command, lines 438-566, up to the first call of a rule *)
command ==
    /\ At("command", "start")
    /\ LET q == next(p)
       IN  CASE peek(p, COMMENT) -> Step(add(q, Comment(q.lval)), Return(0))
             [] ~peek(p, COMMENT) /\ peek(p, Token(LF)) ->
                  IF q.tok # EOF
                  THEN Step(q, Call([top EXCEPT !.pc = "return"],
                                    commandFrame({})))
                  ELSE Step(q, Return(0))
             [] peek(p, LPAREN) ->
                  Step(push(q, FALSE),
                       Call([top EXCEPT !.pc = "subshell",
                                        !.stmts = newSlot(q)],
                            commandsLimited({RPAREN})))
             [] peek(p, LBRACE) ->
                  Step(push(q, FALSE),
                       Call([top EXCEPT !.pc = "block", !.stmts = newSlot(q)],
                            commands({RBRACE})))
             [] peek(p, IF_) ->
                  Step(push(q, TRUE),
                       Call([top EXCEPT !.pc = "ifCond", !.cond = newSlot(q)],
                            commandFrame({})))
             [] peek(p, WHILE) ->
                  Step(push(q, TRUE),
                       Call([top EXCEPT !.pc = "whileCond",
                                        !.cond = newSlot(q)],
                            commandFrame({})))
             [] peek(p, FOR) ->
                  LET q1 == want(q, LIT)
                      q2 == want(q1, IN_)
                  IN  Step(push(q2, FALSE),
                           Call([top EXCEPT !.pc = "forList",
                                            !.name = q1.lval,
                                            !.wordList = newSlot(q2)],
                                wordListFrame))
             [] ~(\E k \in {IF_, WHILE, FOR} : peek(p, k))
                /\ (peek(p, LIT) \/ peek(p, EXP)) ->
                  Step(push(p, FALSE),
                       Call([top EXCEPT !.pc = "firstWord",
                                        !.args = newSlot(p)],
                            wordFrame))
             [] OTHER -> Step(errWantedStr(p, "command"), Return(0))

(* lines 450-454, after commandsLimited(RPAREN) returned *)
commandSubshell ==
    /\ At("command", "subshell")
    /\ LET q1 == IF top.rv = 0 THEN errWantedStr(p, "command") ELSE p
           q2 == want(q1, RPAREN)
       IN  Step(popAdd(q2, Subshell(nodes(q2, top.stmts))), Return(0))

(* lines 458-462, after commands(RBRACE) returned *)
commandBlock ==
    /\ At("command", "block")
    /\ LET q1 == IF top.rv = 0 THEN errWantedStr(p, "command") ELSE p
           q2 == want(q1, RBRACE)
       IN  Step(popAdd(q2, Block(nodes(q2, top.stmts))), Return(0))

(* lines 467-470, after the condition's command returned *)
commandIfCond ==
    /\ At("command", "ifCond")
    /\ LET q1 == want(pop(p), THEN_)
       IN  Step(push(q1, FALSE),
                Call([top EXCEPT !.pc = "ifThen", !.thenStmts = newSlot(q1)],
                     commands({FI, ELIF, ELSE_})))

(* lines 488-489 *)
ifEnd(q, f) ==
    LET q1 == want(q, FI)
    IN  [p |-> popAdd(q1, IfStmt(nodes(q1, f.cond), nodes(q1, f.thenStmts),
                                 nodes(q1, f.elifs), nodes(q1, f.elseStmts))),
         calls |-> Return(0)]

(* lines 473-487: the head of the elif loop, and the else *)
ifElifs(q, f) ==
    CASE peek(q, ELIF) ->
            LET q1 == next(q)
            IN  [p |-> push(q1, TRUE),
                 calls |-> Call([f EXCEPT !.pc = "elifCond",
                                          !.elfCond = newSlot(q1)],
                                commandFrame({}))]
      [] ~peek(q, ELIF) /\ peek(q, ELSE_) ->
            LET q1 == pop(next(q))
            IN  [p |-> push(q1, FALSE),
                 calls |-> Call([f EXCEPT !.pc = "ifElse",
                                          !.elseStmts = newSlot(q1)],
                                commands({FI}))]
      [] OTHER -> ifEnd(q, f)

(* lines 471-473, after commands(FI, ELIF, ELSE) returned *)
commandIfThen ==
    /\ At("command", "ifThen")
    /\ LET q1 == pop(p)
           x == ifElifs(push(q1, FALSE), [top EXCEPT !.elifs = newSlot(q1)])
       IN  Step(x.p, x.calls)

(* lines 477-480, after the elif condition's command returned *)
commandElifCond ==
    /\ At("command", "elifCond")
    /\ LET q1 == want(pop(p), THEN_)
       IN  Step(push(q1, FALSE),
                Call([top EXCEPT !.pc = "elifThen", !.elfThen = newSlot(q1)],
                     commands({FI, ELIF, ELSE_})))

(* line 481, and the loop again *)
commandElifThen ==
    /\ At("command", "elifThen")
    /\ LET x == ifElifs(popAdd(p, Elif(nodes(p, top.elfCond),
                                       nodes(p, top.elfThen))), top)
       IN  Step(x.p, x.calls)

(* lines 488-489, after commands(FI) of the else returned *)
commandIfElse ==
    /\ At("command", "ifElse")
    /\ LET x == ifEnd(p, top) IN Step(x.p, x.calls)

(* lines 494-497 *)
commandWhileCond ==
    /\ At("command", "whileCond")
    /\ LET q1 == want(pop(p), DO)
       IN  Step(push(q1, FALSE),
                Call([top EXCEPT !.pc = "whileDo", !.doStmts = newSlot(q1)],
                     commands({DONE})))

(* lines 498-499 *)
commandWhileDo ==
    /\ At("command", "whileDo")
    /\ LET q1 == want(p, DONE)
       IN  Step(popAdd(q1, WhileStmt(nodes(q1, top.cond),
                                     nodes(q1, top.doStmts))), Return(0))

(* lines 507-510 *)
commandForList ==
    /\ At("command", "forList")
    /\ LET q1 == want(pop(p), DO)
       IN  Step(push(q1, FALSE),
                Call([top EXCEPT !.pc = "forDo", !.doStmts = newSlot(q1)],
                     commands({DONE})))

(* lines 511-512 *)
commandForDo ==
    /\ At("command", "forDo")
    /\ LET q1 == want(p, DONE)
       IN  Step(popAdd(q1, ForStmt(Lit(top.name), nodes(q1, top.wordList),
                                   nodes(q1, top.doStmts))), Return(0))

(* lines 521-523: the check of the function's name *)
funcName(q, fpos, fval) ==
    IF ~identRe(fval) THEN posErr(q, fpos, fmtFunc, "", "", fval) ELSE q

(* lines 517-528, after the first word() returned *)
commandFirstWord ==
    /\ At("command", "firstWord")
    /\ LET f == [top EXCEPT !.fpos = p.lpos, !.fval = p.lval]
       IN  IF peek(p, LPAREN)
           THEN LET q1 == funcName(want(next(p), RPAREN), f.fpos, f.fval)
                IN  Step(push(q1, TRUE),
                         Call([f EXCEPT !.pc = "func", !.body = newSlot(q1)],
                              commandFrame({})))
           ELSE Step(p, Goto([f EXCEPT !.pc = "args"]))

(* lines 529-531 *)
commandFunc ==
    /\ At("command", "func")
    /\ LET q1 == pop(p)
       IN  Step(popAdd(q1, FuncDecl(Lit(top.fval), nodes(q1, top.body))),
                Return(0))

(* line 562 *)
cmdEnd(q, f) ==
    [p |-> popAdd(q, Command(nodes(q, f.args), f.background)),
     calls |-> Return(0)]

(* one iteration of the args loop, lines 534-552, up to gotRedirect() *)
commandArgs ==
    /\ At("command", "args")
    /\ LET q == next(p)
           x == cmdEnd(p, top)
       IN  CASE p.tok = EOF \/ \E tok \in top.stop : peek(p, tok) ->
                  Step(x.p, x.calls)
             [] OTHER ->
                  CASE peek(p, LIT) \/ peek(p, EXP) ->
                          Step(p, Call(top, wordFrame))
                    [] \E op \in {LAND, OR, LOR} : peek(p, op) ->
                          Step(q, Call([top EXCEPT !.pc = "return"],
                                       binaryExprFrame(
                                           p.tok,
                                           Command(nodes(q, top.args),
                                                   top.background))))
                    [] OTHER ->
                          Step(p, Call([top EXCEPT !.pc = "argsRest"],
                                       gotRedirectFrame))

(* lines 552-560, after gotRedirect() returned *)
commandArgsRest ==
    /\ At("command", "argsRest")
    /\ LET q == next(p)
           bg == cmdEnd(q, [top EXCEPT !.background = TRUE])
           x == cmdEnd(q, top)
       IN  CASE top.rv = 1 -> Step(p, Goto([top EXCEPT !.pc = "args"]))
             [] top.rv # 1 /\ peek(p, AND) -> Step(bg.p, bg.calls)
             [] top.rv # 1 /\ ~peek(p, AND)
                /\ (peek(p, SEMICOLON) \/ peek(p, Token(LF))) ->
                  Step(x.p, x.calls)
             [] OTHER -> Step(errAfterStr(p, "command"),
                              Goto([top EXCEPT !.pc = "args"]))

(* lines 569-571 *)
binaryExpr ==
    /\ At("binaryExpr", "start")
    /\ Step(push(p, TRUE),
            Call([top EXCEPT !.pc = "end", !.y = newSlot(p)],
                 commandFrame({})))

(* lines 572-574 *)
binaryExprEnd ==
    /\ At("binaryExpr", "end")
    /\ LET q1 == pop(p)
       IN  Step(popAdd(q1, BinaryExpr(top.left, top.op, nodes(q1, top.y))),
                Return(0))

(* lines 578-593 *)
gotRedirect ==
    /\ At("gotRedirect", "start")
    /\ LET q1 == push(p, TRUE)
       IN  IF \E op \in {RDROUT, APPEND, RDRIN} : peek(q1, op)
           THEN Step(next(q1),
                     Call([top EXCEPT !.pc = "end", !.obj = newSlot(p),
                                      !.op = q1.tok],
                          wordFrame))
           ELSE Step(pop(q1), Return(0))

(* lines 594-595 *)
gotRedirectEnd ==
    /\ At("gotRedirect", "end")
    /\ Step(popAdd(p, Redirect(top.op, nodes(p, top.obj))), Return(1))

(* lines 388-389 *)
word ==
    /\ At("word", "start")
    /\ Step(push(p, FALSE),
            Goto([top EXCEPT !.pc = "parts", !.parts = newSlot(p)]))

(* lines 417-420 *)
wordEnd(q, f) ==
    LET q1 == IF Len(nodes(q, f.parts)) = 0
              THEN errWantedStr(q, "word")
              ELSE q
    IN  [p |-> popAdd(q1, Word(nodes(q1, f.parts))), calls |-> Return(0)]

(* one iteration of the loop of lines 391-416, and lines 417-420 *)
wordParts ==
    /\ At("word", "parts")
    /\ LET q == next(p)
           e == wordEnd(p, top)
       IN  CASE p.tok = EOF \/ (Len(nodes(p, top.parts)) > 0 /\ p.spaced) ->
                  Step(e.p, e.calls)
             [] OTHER ->
                  CASE peek(p, LIT) -> Step(add(q, Lit(q.lval)), calls)
                    [] ~peek(p, LIT) /\ peek(p, EXP) ->
                          CASE peek(q, LBRACE) ->
                                  LET x == readUntilWant(q, RBRACE)
                                  IN  Step(next(add(x.p, ParamExp(x.val))),
                                           calls)
                            [] ~peek(q, LBRACE) /\ peek(q, LPAREN) ->
                                  LET q1 == next(q)
                                  IN  Step(push(q1, FALSE),
                                           Call([top EXCEPT
                                                    !.pc = "subst",
                                                    !.stmts = newSlot(q1)],
                                                commandsLimited({RPAREN})))
                            [] OTHER ->
                                  LET q1 == want(q, LIT)
                                  IN  Step(add(q1, Lit(<<"$">> \o q1.lval)),
                                           calls)
                    [] OTHER -> Step(e.p, e.calls)

(* lines 407-408, after commandsLimited(RPAREN) returned *)
wordSubst ==
    /\ At("word", "subst")
    /\ Step(want(popAdd(p, CmdSubst(nodes(p, top.stmts))), RPAREN),
            Goto([top EXCEPT !.pc = "parts"]))

(* one iteration of the loop of lines 425-433 *)
wordList ==
    /\ At("wordList", "loop")
    /\ CASE p.tok = EOF -> Step(p, Return(top.count))
         [] p.tok # EOF /\ (peek(p, SEMICOLON) \/ peek(p, Token(LF))) ->
              Step(next(p), Return(top.count))
         [] OTHER -> Step(p, Call([top EXCEPT !.count = @ + 1], wordFrame))

-----------------------------------------------------------------------------
(* Source texts                                                            *)

(* if a; then b; elif c; then d; else e; fi *)
srcIf ==
    <<"i", "f", " ", "a", ";", " ", "t", "h", "e", "n", " ", "b", ";", " ",
      "e", "l", "i", "f", " ", "c", ";", " ", "t", "h", "e", "n", " ", "d",
      ";", " ", "e", "l", "s", "e", " ", "e", ";", " ", "f", "i">>

(* while a; do b; done *)
srcWhile ==
    <<"w", "h", "i", "l", "e", " ", "a", ";", " ", "d", "o", " ", "b", ";",
      " ", "d", "o", "n", "e">>

(* for x in a b; do c; done *)
srcFor ==
    <<"f", "o", "r", " ", "x", " ", "i", "n", " ", "a", " ", "b", ";", " ",
      "d", "o", " ", "c", ";", " ", "d", "o", "n", "e">>

(* f() { a; } *)
srcFunc ==
    <<"f", "(", ")", " ", "{", " ", "a", ";", " ", "}">>

(* (a) *)
srcSubshell ==
    <<"(", "a", ")">>

(* a >b <c >>d *)
srcRedirect ==
    <<"a", " ", ">", "b", " ", "<", "c", " ", ">", ">", "d">>

(* a && b || c | d & *)
srcBinary ==
    <<"a", " ", "&", "&", " ", "b", " ", "|", "|", " ", "c", " ", "|", " ",
      "d", " ", "&">>

(* a $(b) ${c} $d *)
srcExpansions ==
    <<"a", " ", "$", "(", "b", ")", " ", "$", "{", "c", "}", " ", "$", "d">>

(* #c<LF>a *)
srcComment ==
    <<"#", "c", LF, "a">>

(* one text for every rule of the grammar *)
CoreInputs ==
    {srcIf, srcWhile, srcFor, srcFunc, srcSubshell, srcRedirect, srcBinary,
     srcExpansions, srcComment}

(* every text of at most MaxLen code points over a small alphabet *)
MaxLen == 3

Alphabet == {"a", " ", LF, ";", "(", ")", DQ, "$"}

RECURSIVE Texts(_)
Texts(n) ==
    IF n = 0 THEN {<<>>}
    ELSE Texts(n - 1) \cup {Append(t, c) : t \in Texts(n - 1), c \in Alphabet}

SmallInputs == Texts(MaxLen)

(* texts read from a source that faults at some offset *)
FaultInputs == {srcIf, srcExpansions}

(* if ; then a; fi *)
srcIfNoCond ==
    <<"i", "f", " ", ";", " ", "t", "h", "e", "n", " ", "a", ";", " ", "f",
      "i">>

(* a && b >d ) *)
srcBinaryError ==
    <<"a", " ", "&", "&", " ", "b", " ", ">", "d", " ", ")">>

(* texts with an error *)
ErrorInputs == {srcIfNoCond, srcBinaryError}

(* two errors, one after the other: a first part, whose error the second  *)
(* must not replace, and a second part *)
(* 1a()  *)
srcBadFunc ==
    <<"1", "a", "(", ")", " ">>

(* ;  *)
srcNoCommand ==
    <<";", " ">>

(* "x *)
srcOpenQuote ==
    <<DQ, "x">>

(* ) *)
srcCloseParen ==
    <<")">>

(* 2b() c *)
srcBadFunc2 ==
    <<"2", "b", "(", ")", " ", "c">>

C2First ==
    {[src |-> srcBadFunc,
      err |-> lineErr(position(1, 1), fmtFunc, "", "", <<"1", "a">>)],
     [src |-> srcNoCommand,
      err |-> lineErr(position(1, 1), fmtWanted, SEMICOLON, "command", <<>>)]}

C2Second == {srcOpenQuote, srcCloseParen, srcBadFunc2}

TwoErrorInputs == {f.src \o s : f \in C2First, s \in C2Second}

(* the compound statements, each around a body of n statements:         *)
(*   if a; then BODY fi          if a; then a; elif a; then BODY fi       *)
(*   if a; then a; else BODY fi  while a; do BODY done                    *)
(*   for x in a; do BODY done    { BODY }            ( BODY )             *)
MaxBody == 2

RECURSIVE Body(_)
Body(n) == IF n = 0 THEN <<>> ELSE <<"a", ";", " ">> \o Body(n - 1)

Compounds ==
    {
     [kind |-> "then",
      open |-> <<"i", "f", " ", "a", ";", " ", "t", "h", "e", "n", " ">>,
      close |-> <<"f", "i">>],
     [kind |-> "elif",
      open |-> <<"i", "f", " ", "a", ";", " ", "t", "h", "e", "n", " ", "a", ";", " ", "e", "l", "i", "f", " ", "a", ";", " ", "t", "h", "e", "n", " ">>,
      close |-> <<"f", "i">>],
     [kind |-> "else",
      open |-> <<"i", "f", " ", "a", ";", " ", "t", "h", "e", "n", " ", "a", ";", " ", "e", "l", "s", "e", " ">>,
      close |-> <<"f", "i">>],
     [kind |-> "while",
      open |-> <<"w", "h", "i", "l", "e", " ", "a", ";", " ", "d", "o", " ">>,
      close |-> <<"d", "o", "n", "e">>],
     [kind |-> "for",
      open |-> <<"f", "o", "r", " ", "x", " ", "i", "n", " ", "a", ";", " ", "d", "o", " ">>,
      close |-> <<"d", "o", "n", "e">>],
     [kind |-> "block",
      open |-> <<"{", " ">>,
      close |-> <<"}">>],
     [kind |-> "subshell",
      open |-> <<"(", " ">>,
      close |-> <<")">>]}

BodyCases ==
    {[kind |-> c.kind, n |-> n, src |-> c.open \o Body(n) \o c.close] :
        c \in Compounds, n \in 0..MaxBody}

BodyInputs == {c.src : c \in BodyCases}

(* a first word followed by "() b": the words of at most MaxName code     *)
(* points over letters, digits, "_" and "$", a "$" always followed by the *)
(* name it expands *)
MaxName == 2

NameAlphabet == {"a", "1", "_", "$"}

RECURSIVE Names(_)
Names(n) ==
    IF n = 0 THEN {<<>>}
    ELSE Names(n - 1) \cup {Append(w, c) : w \in Names(n - 1), c \in NameAlphabet}

FirstWords ==
    {w \in Names(MaxName) :
        /\ w # <<>>
        /\ \A i \in 1..Len(w) :
              w[i] = "$" => i < Len(w) /\ w[i + 1] # "$"}

FuncCases ==
    {[word |-> w, src |-> w \o <<"(", ")", " ", "b">>] : w \in FirstWords}

FuncInputs == {c.src : c \in FuncCases}

(* keywords as arguments: after the first word of a simple command, at    *)
(* most MaxKw words spelled as keywords, at the top level and in a body   *)
MaxKw == 1

Keywords ==
    {reservedLits(tok) :
        tok \in {IF_, THEN_, ELIF, ELSE_, FI, WHILE, FOR, IN_, DO, DONE}}

RECURSIVE KwLists(_)
KwLists(n) ==
    IF n = 0 THEN {<<>>}
    ELSE KwLists(n - 1) \cup {Append(ws, k) : ws \in KwLists(n - 1), k \in Keywords}

RECURSIVE ArgText(_)
ArgText(ws) ==
    IF ws = <<>> THEN <<>> ELSE <<" ">> \o Head(ws) \o ArgText(Tail(ws))

(* the Command of the first word and the argument words ws *)
SimpleCommand(first, ws) ==
    Command(<<litWord(first)>> \o [i \in 1..Len(ws) |-> litWord(ws[i])], FALSE)

KeywordCasesOf(ws) ==
    {[kind |-> "top", args |-> ws,
      src |-> <<"a">> \o ArgText(ws),
      prog |-> <<SimpleCommand(<<"a">>, ws)>>],
     [kind |-> "while", args |-> ws,
      src |-> <<"w", "h", "i", "l", "e", " ", "a", ";", " ", "d", "o", " ", "b">> \o ArgText(ws)
              \o <<";", " ", "d", "o", "n", "e">>,
      prog |-> <<WhileStmt(<<SimpleCommand(<<"a">>, <<>>)>>,
                           <<SimpleCommand(<<"b">>, ws)>>)>>],
     [kind |-> "if", args |-> ws,
      src |-> <<"i", "f", " ", "a", ";", " ", "t", "h", "e", "n", " ", "b">> \o ArgText(ws)
              \o <<";", " ", "f", "i">>,
      prog |-> <<IfStmt(<<SimpleCommand(<<"a">>, <<>>)>>,
                        <<SimpleCommand(<<"b">>, ws)>>, <<>>, <<>>)>>],
     [kind |-> "subshell", args |-> ws,
      src |-> <<"(", "a">> \o ArgText(ws) \o <<")">>,
      prog |-> <<Subshell(<<SimpleCommand(<<"a">>, ws)>>)>>]}

KeywordCases == UNION {KeywordCasesOf(ws) : ws \in KwLists(MaxKw) \ {<<>>}}

KeywordInputs == {c.src : c \in KeywordCases}

(* an open quoted region at the end of the input: "a ", a quote, and at   *)
(* most MaxRegion code points, none of them a quote *)
MaxRegion == 2

RegionAlphabet == {"b", " ", "$"}

RECURSIVE Regions(_)
Regions(n) ==
    IF n = 0 THEN {<<>>}
    ELSE Regions(n - 1) \cup {Append(t, c) : t \in Regions(n - 1), c \in RegionAlphabet}

OpenQuoteCases ==
    {[quote |-> qt, region |-> t, src |-> <<"a", " ", qt>> \o t] :
        qt \in quote, t \in Regions(MaxRegion)}

OpenQuoteInputs == {c.src : c \in OpenQuoteCases}

(* line continuations: at most MaxCont items, each the letter a, a space  *)
(* or a continuation (a backslash and a line feed); four items reach a    *)
(* continuation between a space and the next word *)
MaxCont == 4

CONT == "CONT"

RECURSIVE ContItems(_)
ContItems(n) ==
    IF n = 0 THEN {<<>>}
    ELSE ContItems(n - 1) \cup {Append(t, c) : t \in ContItems(n - 1), c \in {"a", " ", CONT}}

(* the text of the items *)
RECURSIVE ContText(_)
ContText(items) ==
    IF items = <<>> THEN <<>>
    ELSE (IF Head(items) = CONT THEN <<BSL, LF>> ELSE <<Head(items)>>)
             \o ContText(Tail(items))

(* the items with the continuations deleted *)
Deleted(items) == SelectSeq(items, LAMBDA c : c # CONT)

(* the words of a text of letters and spaces: its maximal runs of letters *)
RECURSIVE WordsOf(_, _)
WordsOf(text, cur) ==
    IF text = <<>> THEN (IF cur = <<>> THEN <<>> ELSE <<cur>>)
    ELSE IF Head(text) = " "
    THEN (IF cur = <<>> THEN <<>> ELSE <<cur>>) \o WordsOf(Tail(text), <<>>)
    ELSE WordsOf(Tail(text), Append(cur, Head(text)))

(* the program of a line of words: one Command of these words, if any *)
ProgOfWords(ws) ==
    IF ws = <<>> THEN <<>> ELSE <<SimpleCommand(Head(ws), Tail(ws))>>

ContCases ==
    {[items |-> t, src |-> ContText(t),
      prog |-> ProgOfWords(WordsOf(Deleted(t), <<>>))] :
        t \in ContItems(MaxCont)}

ContInputs == {c.src : c \in ContCases}

(* chains c1 op1 c2 ... of simple commands and at most MaxOps binary      *)
(* operators *)
MaxOps == 2

ChainCommands ==
    {[src |-> <<"a">>, node |-> SimpleCommand(<<"a">>, <<>>)],
     [src |-> <<"b", " ", "c", " ", ">", "d">>,
      node |-> Command(<<litWord(<<"b">>), litWord(<<"c">>),
                         Redirect(RDROUT, <<litWord(<<"d">>)>>)>>, FALSE)]}

ChainOps ==
    {[src |-> <<"&", "&">>, op |-> LAND], [src |-> <<"|", "|">>, op |-> LOR],
     [src |-> <<"|">>, op |-> OR]}

RECURSIVE Chains(_)
Chains(n) ==
    IF n = 0 THEN {[src |-> c.src, node |-> c.node, ops |-> 0] : c \in ChainCommands}
    ELSE Chains(n - 1) \cup
         {[src |-> c.src \o <<" ">> \o o.src \o <<" ">> \o r.src,
           node |-> BinaryExpr(c.node, o.op, <<r.node>>),
           ops |-> r.ops + 1] :
              c \in ChainCommands, o \in ChainOps, r \in Chains(n - 1)}

ChainCases == Chains(MaxOps)

ChainInputs == {c.src : c \in ChainCases}

(* at most MaxLines lines, each empty or a simple command (words, an     *)
(* expansion, a redirect, a quoted word, a background mark), a line feed  *)
(* between two lines and, or not, after the last *)
MaxLines == 2

LineSet ==
    {[src |-> <<>>, prog |-> <<>>],
     [src |-> <<"a">>, prog |-> <<SimpleCommand(<<"a">>, <<>>)>>],
     [src |-> <<"b", " ", "c">>,
      prog |-> <<SimpleCommand(<<"b">>, <<<<"c">>>>)>>],
     [src |-> <<"d", " ", "$", "e", " ", ">", "f", " ", "&">>,
      prog |-> <<Command(<<litWord(<<"d">>), litWord(<<"$", "e">>),
                           Redirect(RDROUT, <<litWord(<<"f">>)>>)>>, TRUE)>>],
     [src |-> <<SQ, "g", " ", "h", SQ>>,
      prog |-> <<SimpleCommand(<<SQ, "g", " ", "h", SQ>>, <<>>)>>]}

RECURSIVE LineLists(_)
LineLists(n) ==
    IF n = 0 THEN {<<>>}
    ELSE LineLists(n - 1) \cup {Append(ls, l) : ls \in LineLists(n - 1), l \in LineSet}

RECURSIVE JoinLines(_)
JoinLines(ls) ==
    IF ls = <<>> THEN <<>>
    ELSE IF Len(ls) = 1 THEN Head(ls).src
    ELSE Head(ls).src \o <<LF>> \o JoinLines(Tail(ls))

(* one Command per non-empty line *)
RECURSIVE ProgOfLines(_)
ProgOfLines(ls) ==
    IF ls = <<>> THEN <<>> ELSE Head(ls).prog \o ProgOfLines(Tail(ls))

LineCases ==
    {[lines |-> ls, src |-> JoinLines(ls) \o end, prog |-> ProgOfLines(ls)] :
        ls \in LineLists(MaxLines) \ {<<>>}, end \in {<<>>, <<LF>>}}

LineInputs == {c.src : c \in LineCases}

(* nested command substitutions: depth times "$(", the command a, and     *)
(* closed of the ")" they need, with or without spaces between them; the  *)
(* innermost may also be empty *)
MaxDepth == 2

RECURSIVE Repeat(_, _)
Repeat(text, n) == IF n = 0 THEN <<>> ELSE text \o Repeat(text, n - 1)

(* the statements of depth nested substitutions around the command a *)
RECURSIVE NestProg(_)
NestProg(d) ==
    IF d = 0 THEN <<SimpleCommand(<<"a">>, <<>>)>>
    ELSE <<Command(<<Word(<<CmdSubst(NestProg(d - 1))>>)>>, FALSE)>>

NestCases ==
    {[depth |-> d, closed |-> k, body |-> b,
      src |-> Repeat(<<"$", "(">> \o sp, d) \o b \o Repeat(sp \o <<")">>, k),
      prog |-> NestProg(d)] :
        d \in 1..MaxDepth, k \in 0..MaxDepth, sp \in {<<>>, <<" ">>},
        b \in {<<"a">>, <<>>}}

NestInputs == {c.src : c \in {n \in NestCases : n.closed <= n.depth}}

(* escapes in a word: in no region or in a region opened by a quote, an   *)
(* optional letter, at most MaxEsc escapes (a backslash and a code point) *)
(* and the letter c, then the quote that closes the region if it is open  *)
MaxEsc == 2

EscChars == {"n", " ", "$", DQ, SQ, LF, BSL}

RECURSIVE EscLists(_)
EscLists(n) ==
    IF n = 0 THEN {<<>>}
    ELSE EscLists(n - 1) \cup {Append(cs, c) : cs \in EscLists(n - 1), c \in EscChars}

(* the text of the escapes of cs met in the region qt, the text the      *)
(* literal keeps of them, and the region after them: in single quotes the *)
(* backslash and the code point are two ordinary code points (a single    *)
(* quote closes the region); elsewhere the pair is kept, but for a line   *)
(* feed, which leaves nothing *)
RECURSIVE EscFold(_, _)
EscFold(cs, qt) ==
    IF cs = <<>> THEN [src |-> <<>>, lit |-> <<>>, qt |-> qt]
    ELSE LET c == Head(cs)
             rest == EscFold(Tail(cs),
                             IF qt = SQ /\ c = SQ THEN NoQuote ELSE qt)
         IN  [src |-> <<BSL, c>> \o rest.src,
              lit |-> (IF qt # SQ /\ c = LF THEN <<>> ELSE <<BSL, c>>)
                          \o rest.lit,
              qt |-> rest.qt]

EscCase(ctx, pre, cs) ==
    LET open == IF ctx = NoQuote THEN <<>> ELSE <<ctx>>
        f == EscFold(cs, ctx)
        close == IF f.qt = NoQuote THEN <<>> ELSE <<f.qt>>
    IN  [ctx |-> ctx, escapes |-> cs,
         src |-> open \o pre \o f.src \o <<"c">> \o close,
         lit |-> open \o pre \o f.lit \o <<"c">> \o close]

EscCases ==
    {EscCase(ctx, pre, cs) :
        ctx \in {NoQuote} \cup quote, pre \in {<<>>, <<"b">>},
        cs \in EscLists(MaxEsc) \ {<<>>}}

EscInputs == {c.src : c \in EscCases}

(* a word wanted and not there: a redirect operator with no target, and   *)
(* the word list of a for meeting an operator *)
NoWordInputs ==
    {<<"a", " ">> \o op \o end :
        op \in {<<">">>, <<">", ">">>, <<"<">>},
        end \in {<<>>, <<";">>, <<LF>>, <<" ", "&">>}}
    \cup {<<"f", "o", "r", " ", "x", " ", "i", "n", " ">> \o op \o <<";", " ", "d", "o", " ", "a", ";", " ", "d", "o", "n", "e">> :
            op \in {<<"&">>, <<"|">>, <<">">>, <<")">>}}

(* raw texts: a comment, to the end of the input or of the line, and a    *)
(* parameter expansion, of at most MaxText code points, the code points   *)
(* of the two-character operators among them *)
MaxText == 2

TextAlphabet == {"a", "&", "|", ">"}

RECURSIVE RawTexts(_)
RawTexts(n) ==
    IF n = 0 THEN {<<>>}
    ELSE RawTexts(n - 1) \cup {Append(t, c) : t \in RawTexts(n - 1), c \in TextAlphabet}

RawTextCasesOf(t) ==
    {[kind |-> "comment", text |-> t, src |-> <<"#">> \o t,
      prog |-> <<Comment(t)>>],
     [kind |-> "comment", text |-> t, src |-> <<"#">> \o t \o <<LF, "b">>,
      prog |-> <<Comment(t), SimpleCommand(<<"b">>, <<>>)>>],
     [kind |-> "param", text |-> t,
      src |-> <<"b", " ", "$", "{">> \o t \o <<"}">>,
      prog |-> <<Command(<<litWord(<<"b">>), Word(<<ParamExp(t)>>)>>,
                         FALSE)>>]}

RawTextCases == UNION {RawTextCasesOf(t) : t \in RawTexts(MaxText)}

RawTextInputs == {c.src : c \in RawTextCases}

(* a closed quoted region: "a ", a quote, at most MaxRegion code points,  *)
(* none of them a quote, and the quote again *)
ClosedQuoteCases ==
    {[quote |-> qt, region |-> t, src |-> <<"a", " ", qt>> \o t \o <<qt>>] :
        qt \in quote, t \in Regions(MaxRegion)}

ClosedQuoteInputs == {c.src : c \in ClosedQuoteCases}

(* a subshell or a command substitution around the command a or around   *)
(* a, an operator and b, the ")" right after the last command *)
ParenCases ==
    {[open |-> o, ops |-> 0, src |-> o \o <<"a", ")">>] :
        o \in {<<"(">>, <<"$", "(">>}}
    \cup
    {[open |-> o, ops |-> 1,
      src |-> o \o <<"a", " ">> \o op.src \o <<" ", "b", ")">>] :
        o \in {<<"(">>, <<"$", "(">>}, op \in ChainOps}

ParenInputs == {c.src : c \in ParenCases}

Inputs ==
    CoreInputs \cup SmallInputs \cup ErrorInputs \cup TwoErrorInputs
        \cup BodyInputs \cup FuncInputs \cup KeywordInputs
        \cup OpenQuoteInputs \cup ContInputs \cup ChainInputs \cup LineInputs
        \cup NestInputs \cup EscInputs \cup NoWordInputs
        \cup RawTextInputs \cup ClosedQuoteInputs
        \cup ParenInputs

parser(src, faultAt, sticky) ==
    [src |-> src, off |-> 0, canUnread |-> FALSE, faultAt |-> faultAt,
     sticky |-> sticky, err |-> nil, spaced |-> FALSE, ltok |-> ILLEGAL,
     tok |-> ILLEGAL, lval |-> <<>>, val |-> <<>>, bpos |-> position(0, 0),
     lpos |-> position(0, 0), pos |-> position(0, 0),
     npos |-> position(1, 1), heap |-> <<>>, stack |-> <<>>, panic |-> ""]

Init ==
    /\ \/ \E src \in Inputs : p = parser(src, -1, FALSE)
       \/ \E src \in FaultInputs : \E k \in 0..Len(src) : \E sticky \in BOOLEAN :
            p = parser(src, k, sticky)
    /\ calls = <<Frame("Parse", "start")>>
    /\ ret = [done |-> FALSE, prog |-> <<>>, err |-> nil]

Next ==
    \/ Parse
    \/ ParseReturn
    \/ commandsPropagating
    \/ command
    \/ commandReturn
    \/ commandSubshell
    \/ commandBlock
    \/ commandIfCond
    \/ commandIfThen
    \/ commandElifCond
    \/ commandElifThen
    \/ commandIfElse
    \/ commandWhileCond
    \/ commandWhileDo
    \/ commandForList
    \/ commandForDo
    \/ commandFirstWord
    \/ commandFunc
    \/ commandArgs
    \/ commandArgsRest
    \/ binaryExpr
    \/ binaryExprEnd
    \/ gotRedirect
    \/ gotRedirectEnd
    \/ word
    \/ wordParts
    \/ wordSubst
    \/ wordList

Spec == Init /\ [][Next]_vars

(* Parse runs on its own: a step that can be taken is taken *)
LiveSpec == Spec /\ WF_vars(Next)


-----------------------------------------------------------------------------
(* The claims                                                              *)

(* a frame of the call stack is at pc *)
Reached(pc) == \E i \in 1..Len(calls) : calls[i].pc = pc

(* C1: once the error slot is non-nil no later errPass replaces it, and   *)
(* Parse returns the error the slot holds: the first one latched.         *)
C1_FirstErrorWins ==
    [][/\ p.err # nil => p'.err = p.err
       /\ ret'.done => ret'.err = p.err]_vars

(* C1: the condition of an if met a ";" (wanted command), the want(THEN)  *)
(* that followed failed too, and the slot still holds the first error.    *)
C1_Witness ==
    /\ p.src = srcIfNoCond
    /\ Reached("ifThen")
    /\ p.err = lineErr(position(1, 4), fmtWanted, SEMICOLON, "command", <<>>)

(* C2: of two errors in a text, Parse reports the one whose offending     *)
(* token comes first, at that token's position.                           *)
C2_FirstInSourceOrder ==
    ret.done =>
        \A f \in C2First : \A s \in C2Second :
            p.src = f.src \o s => ret.err = f.err


(* the statements of the body of the compound statement node *)
BodyOf(node, kind) ==
    CASE kind = "then" -> node.ThenStmts
      [] kind = "elif" -> node.Elifs[1].ThenStmts
      [] kind = "else" -> node.ElseStmts
      [] kind \in {"while", "for"} -> node.DoStmts
      [] kind \in {"block", "subshell"} -> node.Stmts

(* C3: a compound statement whose body (then, elif-then, else, do of      *)
(* while, do of for, block, subshell) is empty makes Parse return a       *)
(* "wanted command" error; with n > 0 statements in the body Parse        *)
(* succeeds and the body holds exactly the n statements.                  *)
C3_EmptyBodyFails ==
    ret.done =>
        \A c \in BodyCases :
            p.src = c.src =>
                IF c.n = 0
                THEN /\ ret.err.kind = "lineErr"
                     /\ ret.err.text = fmtWanted
                     /\ ret.err.want = "command"
                ELSE /\ ret.err = nil
                     /\ Len(ret.prog) = 1
                     /\ Len(BodyOf(ret.prog[1], c.kind)) = c.n


(* C4: when the word before "(" ")" is not a single literal matching the  *)
(* identifier pattern, no FuncDecl is produced without error: Parse       *)
(* returns an invalid-function-name error at the start of that word.      *)
C4_FuncNameChecked ==
    ret.done =>
        \A c \in FuncCases :
            (p.src = c.src /\ ~identRe(c.word)) =>
                /\ ret.err.kind = "lineErr"
                /\ ret.err.text = fmtFunc
                /\ ret.err.pos = position(1, 1)


(* C5: a word spelled as a keyword after the first word of a simple       *)
(* command is an argument Word of that Command, at the top level and in   *)
(* the body of a while, an if or a subshell: it starts and ends nothing.  *)
C5_KeywordsContextual ==
    ret.done =>
        \A c \in KeywordCases :
            p.src = c.src => ret.err = nil /\ ret.prog = c.prog

(* C5: "while a; do b done; done" is parsed, the first done an argument *)
C5_Witness ==
    /\ ret.done
    /\ p.src = <<"w", "h", "i", "l", "e", " ", "a", ";", " ", "d", "o", " ", "b", " ", "d", "o", "n", "e", ";", " ", "d", "o", "n", "e">>
    /\ ret.err = nil
    /\ ret.prog[1].type = "WhileStmt"
    /\ ret.prog[1].DoStmts[1].Args = <<litWord(<<"b">>), litWord(reservedLits(DONE))>>


(* the line and column of the k-th code point of src, Len(src) + 1 for    *)
(* the cursor after the last one: lines and columns count from 1, a line  *)
(* feed ends its line *)
PosAt(src, k) ==
    position(1 + Cardinality({i \in 1..(k - 1) : src[i] = LF}),
             k - Cardinality({i \in 1..(k - 1) :
                                 \E j \in i..(k - 1) : src[j] = LF}))

C7_OpenQuoteReported ==
    ret.done =>
        \A c \in OpenQuoteCases :
            p.src = c.src =>
                /\ ret.err.kind = "lineErr"
                /\ ret.err.text = fmtWanted
                /\ ret.err.want = Token(c.quote)

(* C8: a backslash and a line feed change nothing: the program is the     *)
(* program of the text with each such pair deleted, a Command of the      *)
(* words the spaces separate.                                             *)
C8_ContinuationInvisible ==
    ret.done =>
        \A c \in ContCases :
            p.src = c.src => ret.err = nil /\ ret.prog = c.prog

(* C9: c1 op1 c2 op2 ... cn is BinaryExpr(op1, c1, BinaryExpr(op2, c2,    *)
(* ... cn)), each left operand the Command of the words and redirects     *)
(* before its operator, and the statement list gets this one node.        *)
C9_RightAssociative ==
    ret.done =>
        \A c \in ChainCases :
            p.src = c.src => ret.err = nil /\ ret.prog = <<c.node>>

(* C9: a chain of two operators is parsed, the second nested in Y *)
C9_Witness ==
    /\ ret.done
    /\ \E c \in ChainCases : c.ops = 2 /\ p.src = c.src
    /\ Len(ret.prog) = 1
    /\ ret.prog[1].type = "BinaryExpr"
    /\ ret.prog[1].X.type = "Command"
    /\ ret.prog[1].Y[1].type = "BinaryExpr"

C11_SubstNestsAndCloses ==
    ret.done =>
        \A c \in NestCases :
            (p.src = c.src /\ c.closed <= c.depth) =>
                IF c.closed = c.depth
                THEN c.body # <<>> => ret.err = nil /\ ret.prog = c.prog
                ELSE /\ ret.err.kind = "lineErr"
                     /\ ret.err.text = fmtWanted
                     /\ ret.err.tok = EOF
                     /\ ret.err.want = RPAREN

(* C11: "$( $( a ) )" is parsed, a CmdSubst in a CmdSubst *)
C11_Witness ==
    /\ ret.done
    /\ p.src = <<"$", "(", " ", "$", "(", " ", "a", " ", ")", " ", ")">>
    /\ ret.err = nil
    /\ ret.prog[1].Args[1].Parts[1].type = "CmdSubst"
    /\ ret.prog[1].Args[1].Parts[1].Stmts[1].Args[1].Parts[1].type = "CmdSubst"


(* C12: in single quotes a backslash and the code point after it are two  *)
(* ordinary code points of the literal (a single quote after a backslash  *)
(* closes the region); elsewhere a backslash and a code point other than  *)
(* a line feed are both kept and the code point ends no literal and opens *)
(* or closes no region; a backslash and a line feed leave nothing.        *)
C12_Escapes ==
    ret.done =>
        \A c \in EscCases :
            p.src = c.src =>
                ret.err = nil /\ ret.prog = <<SimpleCommand(c.lit, <<>>)>>

(* C12: the word "b\"\<LF>c" in double quotes is one literal, the quote   *)
(* kept with its backslash, the line feed and its backslash gone          *)
C12_Witness ==
    /\ ret.done
    /\ p.src = <<DQ, "b", BSL, DQ, BSL, LF, "c", DQ>>
    /\ ret.err = nil
    /\ ret.prog = <<SimpleCommand(<<DQ, "b", BSL, DQ, "c", DQ>>, <<>>)>>


(* C13: once an error is latched the current token is EOF in every later  *)
(* state of the parse, and no further code point is read.                 *)
C13_EOFAfterError ==
    /\ [](p.err # nil => p.tok = EOF)
    /\ [][p.err # nil => p'.off = p.off]_vars


(* C14: Parse returns on every input, well-formed or not: no loop or      *)
(* recursion of the rules repeats without end.                            *)
C14_Terminates == <>ret.done

(* C14: Parse has returned an error for a text that is not well-formed,   *)
(* the loops of commandsPropagating and of the args of command left       *)
C14_Witness ==
    /\ ret.done
    /\ p.src = <<"a", " ", ")">>
    /\ ret.err = lineErr(position(1, 3), fmtAfter, RPAREN, "command", <<>>)


(* a step in which the running rule returns to its caller *)
Returns(fns) ==
    /\ calls # <<>>
    /\ Len(calls') = Len(calls) - 1
    /\ top.fn \in fns

(* C15, as stated: each of command, word, binaryExpr and gotRedirect      *)
(* returns with the stack at the depth it had on entry; no panic of add   *)
(* or pop is reached; Parse returns with one slot on the stack.           *)
C15_EveryRuleBalanced ==
    [][/\ Returns({"command", "word", "binaryExpr", "gotRedirect"}) =>
            Len(p'.stack) = top.depth
       /\ p'.panic = ""
       /\ ret'.done => Len(p'.stack) = 1]_vars

(* C15, amended: command, word and gotRedirect return with the stack at   *)
(* the depth it had on entry; binaryExpr returns with it one slot lower,  *)
(* having popped the Args slot of the command that called it; the stack   *)
(* is never empty at an add or a pop, a single-value slot gets at most    *)
(* one node, and Parse returns with exactly one slot on the stack.        *)
C15_StackDiscipline ==
    [][/\ Returns({"command", "word", "gotRedirect"}) =>
            Len(p'.stack) = top.depth
       /\ Returns({"binaryExpr"}) => Len(p'.stack) = top.depth - 1
       /\ p'.panic = ""
       /\ \A i \in 1..Len(p'.heap) :
            p'.heap[i].single => Len(p'.heap[i].nodes) <= 1
       /\ ret'.done => Len(p'.stack) = 1]_vars

(* C15: Parse has returned for a text of binary operators, redirects and  *)
(* an error, one slot left on the stack                                   *)
C15_Witness ==
    /\ ret.done
    /\ p.src = srcBinaryError
    /\ ret.err # nil
    /\ Len(p.stack) = 1
    /\ p.panic = ""


(* every Word of the tree under the node n has a part *)
RECURSIVE WordsHaveParts(_)
AllHaveParts(ns) == \A i \in 1..Len(ns) : WordsHaveParts(ns[i])

WordsHaveParts(n) ==
    CASE n.type = "Word" -> n.Parts # <<>> /\ AllHaveParts(n.Parts)
      [] n.type \in {"Lit", "ParamExp", "Comment"} -> TRUE
      [] n.type \in {"CmdSubst", "Subshell", "Block"} -> AllHaveParts(n.Stmts)
      [] n.type = "IfStmt" ->
            /\ AllHaveParts(n.Cond) /\ AllHaveParts(n.ThenStmts)
            /\ AllHaveParts(n.Elifs) /\ AllHaveParts(n.ElseStmts)
      [] n.type = "Elif" -> AllHaveParts(n.Cond) /\ AllHaveParts(n.ThenStmts)
      [] n.type = "WhileStmt" ->
            AllHaveParts(n.Cond) /\ AllHaveParts(n.DoStmts)
      [] n.type = "ForStmt" ->
            AllHaveParts(n.WordList) /\ AllHaveParts(n.DoStmts)
      [] n.type = "FuncDecl" -> AllHaveParts(n.Body)
      [] n.type = "Command" -> AllHaveParts(n.Args)
      [] n.type = "BinaryExpr" -> WordsHaveParts(n.X) /\ AllHaveParts(n.Y)
      [] n.type = "Redirect" -> AllHaveParts(n.Obj)

(* C16: every Word in the tree Parse returns, with or without an error,   *)
(* has at least one part.                                                 *)
C16_WordsNonEmpty == ret.done => AllHaveParts(ret.prog)


(* C17: the text of a Comment is the code points between "#" and the line *)
(* feed or the end of the input, the text of a ParamExp those between     *)
(* "${" and the first "}", none dropped, none twice, also when they spell *)
(* "&&", "||" or ">>".                                                    *)
C17_RawTextExact ==
    ret.done =>
        \A c \in RawTextCases :
            p.src = c.src => ret.err = nil /\ ret.prog = c.prog


(* C18: when every quote that opens a region is followed by the quote     *)
(* that closes it, with or without a "$" in the region, Parse reports no  *)
(* unterminated quote.                                                    *)
C18_ClosedQuoteNoError ==
    ret.done =>
        \A c \in ClosedQuoteCases :
            p.src = c.src =>
                ~(/\ ret.err.kind = "lineErr"
                  /\ ret.err.text = fmtWanted
                  /\ ret.err.want \in {Token(qt) : qt \in quote})


(* C19: in a subshell or a command substitution a simple command right    *)
(* before the ")" ends at it without error, alone or as the right         *)
(* operand of "&&", "||" or "|": Parse succeeds.                          *)
C19_CommandEndsAtParen ==
    ret.done =>
        \A c \in ParenCases : p.src = c.src => ret.err = nil

====
